---- MODULE Spec2Model ----
(***************************************************************************)
(* A model of the hospital floor-plan viewer: the orbit camera, the        *)
(* pointer handlers, room picking/selection, the layer-group visibility,   *)
(* the render loop and lifecycle, and buildHospital of the Scene component *)
(* and the useCamera / useLayers hooks, the detail panel state of the App  *)
(* and the collapse state of the Sidebar.                                  *)
(*                                                                         *)
(* The repository holds several revisions of the scene:                    *)
(*   "Scene"    src/react-app/components/Scene.tsx (clamped azimuth,       *)
(*              picking, building + 3 damage groups, useLayers with the    *)
(*              main "flood" toggle)                                       *)
(*   "TwoLayer" unnamed/part_004 lines 1-597 (clamped azimuth, no picking, *)
(*              building + 2 damage groups, useLayers with two toggles)    *)
(*   "Legacy"   unnamed/part_004 lines 599-1119 (free azimuth, view        *)
(*              presets, picking that also snaps the radius)               *)
(*   "Hook"     src/react-app/hooks/useCamera.ts (the camera as a hook)    *)
(*                                                                         *)
(* Units.  Angles are integers in 1e-4 rad (PI = 31416), radii integers in *)
(* 1e-3 scene units, pointer positions are CSS pixels, look-at targets are *)
(* in half scene units (so that x + width/2 is an integer).                *)
(* The lengths of buildHospital (room coordinates, transforms, scattered    *)
(* damage) are integers in 1e-2 scene units, random fractions integers in  *)
(* 1e-4.  NaN is a value of its own that every arithmetic operation and    *)
(* Math.max / Math.min propagate.                                          *)
(***************************************************************************)
EXTENDS Integers, Sequences, FiniteSets, TLC

VARIABLES
    rev,            \* which revision of the scene is running
    stage,          \* mount stage of the component
    spherical,      \* sphericalRef.current: [radius, phi, theta]
    target,         \* targetRef.current: <<2x, 2z>>
    isDragging,     \* isDraggingRef.current
    lastMouse,      \* lastMouseRef.current: <<x, y>>
    cameraAttached, \* cameraRef.current # null
    currentView,    \* the currentView state / prop
    selectedRoom,   \* App state: a room id or NoRoom
    detailPanelOpen,\* App state
    layers,         \* useLayers state
    visible,        \* layerGroupsRef.current[g].visible
    pointer,        \* where the pointer is: <<x, y>>
    over,           \* the pointer is over the container
    held,           \* the button physically held: -1 (none), 0, 2
    clickPending,   \* the browser owes the container a click event
    downAt,         \* history: the position of the last primary press
    nPress,         \* history: number of presses so far
    lastEvent,      \* history: the last handler that ran
    lastPick,       \* history: what the last click did
    roomList,       \* the rooms array of roomData.ts the scene is built from
    built,          \* what buildHospital put into the layer groups
    nBuilds,        \* history: number of buildHospital calls
    rafPending,     \* an animation-frame callback is scheduled
    resizeListener, \* handleResize is registered on window
    rendererSize,   \* the size last given to renderer.setSize
    drawn,          \* history: the layer groups the last rendered frame drew
    frame,          \* history: what the last render call was given
    prevScatter,    \* history: the scattered damage of the previous page load
    collapsed,      \* Sidebar state: the sidebar is collapsed
    innerWidth,     \* window.innerWidth
    sideEffectDue,  \* the Sidebar's [collapsed] effect has yet to run
    userExpanded,   \* history: the sidebar is expanded by the user's click
    probe           \* history: two scattered elements and the seeds they use

vars == <<rev, stage, spherical, target, isDragging, lastMouse, cameraAttached,
          currentView, selectedRoom, detailPanelOpen, layers, visible, pointer,
          over, held, clickPending, downAt, nPress, lastEvent, lastPick,
          roomList, built, nBuilds, rafPending, resizeListener, rendererSize,
          drawn, frame, prevScatter, collapsed, innerWidth, sideEffectDue,
          userExpanded, probe>>

camVars == <<spherical, target>>
appVars == <<selectedRoom, detailPanelOpen>>
layerVars == <<layers, visible>>
ptrVars == <<pointer, over, held, clickPending, downAt, nPress>>
buildVars == <<roomList, built, nBuilds, prevScatter>>
loopVars == <<rafPending, resizeListener, rendererSize, drawn, frame>>
sideVars == <<collapsed, innerWidth, sideEffectDue, userExpanded>>

----------------------------------------------------------------------------
(* Arithmetic helpers *)

\* the number NaN, kept apart from every number the model computes with
NaN == -2000000000
IsNaN(a) == a = NaN

\* a + b, a - b, a * b of JavaScript numbers: NaN in, NaN out
Plus(a, b) == IF IsNaN(a) \/ IsNaN(b) THEN NaN ELSE a + b
Minus(a, b) == IF IsNaN(a) \/ IsNaN(b) THEN NaN ELSE a - b
Times(a, b) == IF IsNaN(a) \/ IsNaN(b) THEN NaN ELSE a * b

\* Math.max, Math.min, Math.abs: NaN if any argument is NaN
Max(a, b) == IF IsNaN(a) \/ IsNaN(b) THEN NaN ELSE IF a >= b THEN a ELSE b
Min(a, b) == IF IsNaN(a) \/ IsNaN(b) THEN NaN ELSE IF a <= b THEN a ELSE b
Abs(a) == IF IsNaN(a) THEN NaN ELSE IF a < 0 THEN -a ELSE a

\* Math.max(lo, Math.min(hi, v)): the clamp idiom of every handler
Clamp(lo, hi, v) == Max(lo, Min(hi, v))

RECURSIVE SqrtSearch(_, _, _)
SqrtSearch(n, lo, hi) ==
    IF hi - lo <= 1 THEN lo
    ELSE LET mid == (lo + hi) \div 2
         IN  IF mid * mid <= n THEN SqrtSearch(n, mid, hi)
             ELSE SqrtSearch(n, lo, mid)

\* floor of the square root, n < 2^31
ISqrt(n) == SqrtSearch(n, 0, 46341)

----------------------------------------------------------------------------
(* Angles *)

PI == 31416
HALF_PI == PI \div 2

\* cos on [0, pi/2], argument in 1e-4 rad, value scaled by 10000 (Taylor
\* series to x^8; every intermediate stays below 2^31)
CosQ(x) ==
    LET t == (x * x) \div 10000
        a == (t * t) \div 10000
        b == (a * t) \div 100000
    IN  10000 - (t \div 2) + ((t * t) \div 240000) - ((a * t) \div 7200000)
        + ((b * t) \div 40320000)

Cos(x) == IF x <= HALF_PI THEN CosQ(x) ELSE -CosQ(PI - x)

RECURSIVE AcosSearch(_, _, _)
AcosSearch(c, lo, hi) ==
    IF hi - lo <= 1 THEN hi
    ELSE LET mid == (lo + hi) \div 2
         IN  IF Cos(mid) <= c THEN AcosSearch(c, lo, mid)
             ELSE AcosSearch(c, mid, hi)

\* Math.acos: the angle in [0, pi] whose cosine is c (c scaled by 10000)
Acos(c) == IF c >= 10000 THEN 0 ELSE IF c <= -10000 THEN PI
           ELSE AcosSearch(c, 0, PI)

\* Math.atan2(a, b): the angle of the point (b, a); atan2(0, 0) = 0
Atan2(a, b) ==
    IF a = 0 /\ b = 0 THEN 0
    ELSE LET h == ISqrt((a * a + b * b) * 10000)      \* hypot, scaled by 100
             c == (b * 1000000) \div h
         IN  IF a >= 0 THEN Acos(Clamp(-10000, 10000, c))
             ELSE -Acos(Clamp(-10000, 10000, c))

----------------------------------------------------------------------------
(* Program constants *)

Revisions == {"Scene", "TwoLayer", "Legacy", "Hook"}
Views == {"top", "isometric", "side"}
NoRoom == "none"

BUILDING == [width |-> 150, length |-> 670]

\* the look-at target at the building centre, in half units
BuildingCentre == <<BUILDING.width, BUILDING.length>>

\* Scene.tsx / part_004: fixed isometric camera defaults and rotation limits
DEFAULT_CAMERA == [radius |-> 350000, phi |-> PI \div 4, theta |-> PI \div 4]
THETA_LIMIT == PI \div 2
PHI_MIN == 1000
PHI_MAX == HALF_PI - 1000

\* rotation per pixel: 0.003 rad (Scene, TwoLayer), 0.005 rad (Legacy, Hook)
SCENE_ROTATE == 30
HOOK_ROTATE == 50

\* radius limits of the wheel handlers and the radius a room focus snaps to
SCENE_MIN_RADIUS == 100000
LEGACY_MIN_RADIUS == 30000
MAX_RADIUS == 600000
FOCUS_RADIUS == 80000

\* the camera the Legacy scene and the hook start with
TOP_CAMERA == [radius |-> 400000, phi |-> 1000, theta |-> 0]

\* the click-vs-drag threshold of handleClick, in pixels
moveThreshold == 5

\* setCameraView's presets (Legacy)
LegacyPresets ==
    [v \in Views |->
        CASE v = "top" -> [radius |-> 400000, phi |-> 1000, theta |-> 0]
          [] v = "isometric" -> [radius |-> 300000, phi |-> PI \div 4, theta |-> PI \div 4]
          [] v = "side" -> [radius |-> 200000, phi |-> HALF_PI - 1000, theta |-> 0]]

\* CAMERA_PRESETS (useCamera.ts): position - target of each preset, in scene
\* units; every preset targets the building centre
CAMERA_PRESETS ==
    [v \in Views |->
        CASE v = "top" -> [x |-> 0, y |-> 400, z |-> 0]
          [] v = "isometric" -> [x |-> BUILDING.width \div 2 + 100, y |-> 200, z |-> 100]
          [] v = "side" -> [x |-> BUILDING.width \div 2 + 150, y |-> 50, z |-> 0]]

\* the rooms of the dataset the model keeps (generatePatientRooms); this
\* revision of the data has no ceilingLeakSeverity field
PatientRoom(id, x, z) ==
    [id |-> id, x |-> x, z |-> z, width |-> 14, depth |-> 12,
     fixtures |-> <<"toilet", "sink">>,
     damageTypes |-> {"floor", "wall", "ceiling", "fixture"},
     ceilingLeakSeverity |-> "undefined"]
RoomTable ==
    << PatientRoom("#1", 120, 620), PatientRoom("#2", 120, 605),
       PatientRoom("#3", 105, 620) >>

----------------------------------------------------------------------------
(* Bounds of the model *)

MaxRooms == 2       \* rooms of RoomTable in the scene
MaxPress == 2       \* button presses in one behaviour

rooms == SubSeq(RoomTable, 1, Min(MaxRooms, Len(RoomTable)))
RoomIds == {rooms[i].id : i \in 1..Len(rooms)}
RoomById(id) == CHOOSE r \in {rooms[i] : i \in 1..Len(rooms)} : r.id = id

\* pointer positions of the camera runs: a move between them, either way,
\* takes either angle from the default past its limit
OrbitPoints == {<<0, 0>>, <<500, 400>>}
\* pointer positions of the picking runs: in place, 4.2 px away (within the
\* threshold) and 8.5 px away (beyond it)
PickPoints == {<<0, 0>>, <<3, 3>>, <<6, 6>>}
Buttons == {0, 2}
NoButton == -1
\* wheel deltas: factor -1, factor 0, factor 3
WheelDeltas == {-2000, -1000, 2000}

\* what a ray can hit: rooms with their distances along the ray (the
\* distances are the ranks 1..n of the rooms hit)
HitSets ==
    {h \in SUBSET (RoomIds \X (1..MaxRooms)) :
        /\ \A a \in h, b \in h : (a[1] = b[1] \/ a[2] = b[2]) => a = b
        /\ \A a \in h : a[2] <= Cardinality(h)}

----------------------------------------------------------------------------
(* The camera controller: pure updates of sphericalRef.current *)

\* SceneDrag with the upper clamp of phi left out
SceneDragNoPhiMax(sph, deltaX, deltaY) ==
    [sph EXCEPT
        !.theta = Max(DEFAULT_CAMERA.theta - THETA_LIMIT,
                      Min(DEFAULT_CAMERA.theta + THETA_LIMIT,
                          Plus(sph.theta, Times(deltaX, -SCENE_ROTATE)))),
        !.phi = Max(PHI_MIN, Plus(sph.phi, Times(deltaY, SCENE_ROTATE)))]

\* SceneDrag with theta clamped around zero instead of the default angle
SceneDragAroundZero(sph, deltaX, deltaY) ==
    [sph EXCEPT
        !.theta = Max(-THETA_LIMIT,
                      Min(THETA_LIMIT,
                          Plus(sph.theta, Times(deltaX, -SCENE_ROTATE)))),
        !.phi = Max(PHI_MIN, Min(PHI_MAX,
                                 Plus(sph.phi, Times(deltaY, SCENE_ROTATE))))]

\* Scene.tsx handleMouseMove (the same code in part_004's first scene):
\* theta is clamped to a window around DEFAULT_CAMERA.theta, phi to
\* [PHI_MIN, PHI_MAX]
SceneDrag(sph, deltaX, deltaY) ==
    LET thetaDelta == Times(deltaX, -SCENE_ROTATE)
        phiDelta == Times(deltaY, SCENE_ROTATE)
        newTheta == Plus(sph.theta, thetaDelta)
        newPhi == Plus(sph.phi, phiDelta)
    IN  [sph EXCEPT
            !.theta = Max(DEFAULT_CAMERA.theta - THETA_LIMIT,
                          Min(DEFAULT_CAMERA.theta + THETA_LIMIT, newTheta)),
            !.phi = Max(PHI_MIN, Min(PHI_MAX, newPhi))]

\* part_004's second scene, handleMouseMove: theta is free
LegacyDrag(sph, deltaX, deltaY) ==
    [sph EXCEPT
        !.theta = Minus(sph.theta, Times(deltaX, HOOK_ROTATE)),
        !.phi = Max(1000, Min(HALF_PI - 1000,
                              Plus(sph.phi, Times(deltaY, HOOK_ROTATE))))]

\* useCamera.ts handleMouseMove: theta is free
HookDrag(sph, deltaX, deltaY) ==
    [sph EXCEPT
        !.theta = Minus(sph.theta, Times(deltaX, HOOK_ROTATE)),
        !.phi = Max(1000, Min(HALF_PI - 1000,
                              Plus(sph.phi, Times(deltaY, HOOK_ROTATE))))]

\* radius * (1 + deltaY * 0.001)
Scaled(radius, deltaY) ==
    IF IsNaN(radius) \/ IsNaN(deltaY) THEN NaN
    ELSE (radius * (1000 + deltaY)) \div 1000

\* SceneZoom with the lower clamp left out
SceneZoomNoMin(sph, deltaY) ==
    [sph EXCEPT !.radius = Min(MAX_RADIUS, Scaled(sph.radius, deltaY))]

\* Scene.tsx handleWheel
SceneZoom(sph, deltaY) ==
    [sph EXCEPT !.radius =
        Max(SCENE_MIN_RADIUS, Min(MAX_RADIUS, Scaled(sph.radius, deltaY)))]

\* part_004's second scene, handleWheel
LegacyZoom(sph, deltaY) ==
    [sph EXCEPT !.radius =
        Max(LEGACY_MIN_RADIUS, Min(MAX_RADIUS, Scaled(sph.radius, deltaY)))]

\* useCamera.ts handleWheel (zoomSpeed 0.1, times 0.01)
HookZoom(sph, deltaY) ==
    [sph EXCEPT !.radius =
        Max(LEGACY_MIN_RADIUS, Min(MAX_RADIUS, Scaled(sph.radius, deltaY)))]

\* useCamera.ts setView: the spherical coordinates of a preset's offset
PresetSpherical(offset) ==
    LET len100 == ISqrt((offset.x * offset.x + offset.y * offset.y
                         + offset.z * offset.z) * 10000)
        ratio == (offset.y * 1000000) \div len100
    IN  [radius |-> len100 * 10,
         phi |-> Acos(Max(-10000, Min(10000, ratio))),
         theta |-> Atan2(offset.x, offset.z)]

HookPresets == [v \in Views |-> PresetSpherical(CAMERA_PRESETS[v])]

\* room.x + room.width / 2, room.z + room.depth / 2, in half units
RoomCentre(room) == <<2 * room.x + room.width, 2 * room.z + room.depth>>

----------------------------------------------------------------------------
(* Picking *)

RECURSIVE SortHits(_)
SortHits(h) ==
    IF h = {} THEN << >>
    ELSE LET first == CHOOSE a \in h : \A b \in h : a[2] <= b[2]
         IN  <<first[1]>> \o SortHits(h \ {first})

\* raycaster.intersectObjects(meshes): the rooms hit, nearest first
IntersectObjects(h) == SortHits(h)

\* the hitboxes kept in the floor damage group and tested only while that
\* group is shown
MeshesOfShownDamage(vis, h) == IF vis["floorDamage"] THEN h ELSE {}

\* meshes = Array.from(roomMeshesRef.current.values()): of the hitboxes h the
\* ray crosses, those the ray cast is run against; every room has one, kept
\* in the map whatever the group visibilities vis are
Meshes(vis, h) == h

\* handleClick's test "this was a drag"
WasDrag(click, last) ==
    LET dx == Abs(Minus(click[1], last[1]))
        dy == Abs(Minus(click[2], last[2]))
    IN  (~IsNaN(dx) /\ dx > moveThreshold) \/ (~IsNaN(dy) /\ dy > moveThreshold)

\* PickResult without the toggle: a hit always selects
PickResultNoToggle(intersects, selected) ==
    IF Len(intersects) > 0 THEN intersects[1] ELSE NoRoom

\* PickResult taking the last hit of the list instead of the first
PickResultFarthest(intersects, selected) ==
    IF Len(intersects) > 0
    THEN IF selected = intersects[Len(intersects)] THEN NoRoom
         ELSE intersects[Len(intersects)]
    ELSE NoRoom

\* what handleClick passes to onRoomSelect for a ray-cast result
PickResult(intersects, selected) ==
    IF Len(intersects) > 0
    THEN IF selected = intersects[1] THEN NoRoom ELSE intersects[1]
    ELSE NoRoom

\* PickFocus focusing on every hit, the selected room included
PickFocusOnEveryHit(intersects, selected) ==
    IF Len(intersects) > 0 THEN intersects[1] ELSE NoRoom

\* the room the camera focuses on after the pick, NoRoom when it does not move
PickFocus(intersects, selected) ==
    IF Len(intersects) > 0 /\ selected # intersects[1] THEN intersects[1]
    ELSE NoRoom

\* App.tsx: handleRoomSelect, then the effect that opens the detail panel
RoomSelected(room, panelOpen) ==
    [selectedRoom |-> room,
     detailPanelOpen |-> IF room # NoRoom THEN TRUE ELSE panelOpen]

----------------------------------------------------------------------------
(* Layers *)

\* useLayers.ts, the first hook: the main toggle and three sub-toggles
FloodLayers == [flood |-> TRUE, floorDamage |-> TRUE, wallDamage |-> TRUE,
                ceilingDamage |-> TRUE]

\* useLayers.ts, the second hook: two independent toggles, off at start
TwoLayers == [floorDamage |-> FALSE, ceilingDamage |-> FALSE]

\* the layer groups each scene creates
Groups(r) ==
    CASE r = "Scene" -> {"building", "floorDamage", "wallDamage", "ceilingDamage"}
      [] r = "TwoLayer" -> {"building", "floorDamage", "ceilingDamage"}
      [] OTHER -> {}

\* new THREE.Group(): visible by default
NewGroups(r) == [g \in Groups(r) |-> TRUE]

\* ApplyLayers with the ceiling group following the floor flag
ApplyLayersCopyPaste(r, l, vis) ==
    IF DOMAIN vis = {} THEN vis
    ELSE [g \in DOMAIN vis |->
            IF g = "building" THEN TRUE
            ELSE IF g = "ceilingDamage" THEN l["floorDamage"] ELSE l[g]]

\* ApplyLayers looping over every group: the building group has no flag
ApplyLayersEveryGroup(r, l, vis) ==
    IF DOMAIN vis = {} THEN vis
    ELSE [g \in DOMAIN vis |-> IF g \in DOMAIN l THEN l[g] ELSE FALSE]

\* the layer visibility effect
ApplyLayers(r, l, vis) ==
    IF DOMAIN vis = {} THEN vis
    ELSE [g \in DOMAIN vis |-> IF g = "building" THEN TRUE ELSE l[g]]

\* setLayers(prev => ({ ...prev, [key]: !prev[key] }))
Toggled(l, key) == [l EXCEPT ![key] = ~l[key]]

----------------------------------------------------------------------------
(* buildHospital: the instanced buffers.  Lengths are in 1e-2 scene units. *)

\* BUILDING.wallThickness (0.5), and the fixture row of a room: the first
\* fixture sits 2 units inside the wall, the next ones 3 units apart
wallThickness == 50
FIXTURE_INSET == 200
FIXTURE_SPACING == 300

\* a scene length (feet) in 1e-2 units
T(v) == Times(v, 100)

\* the rooms buildHospital can be given: ordinary rooms, a hallway with no
\* damage and no fixtures, a room with an unknown fixture, a room of zero
\* width and a room whose x is not a number
SampleRooms ==
    { [id |-> "#1", x |-> 120, z |-> 620, width |-> 14, depth |-> 12,
       fixtures |-> <<"toilet", "sink">>,
       damageTypes |-> {"floor", "wall", "fixture"},
       ceilingLeakSeverity |-> "none"],
      [id |-> "#2", x |-> 120, z |-> 605, width |-> 14, depth |-> 12,
       fixtures |-> <<"sink", "sink", "cabinet">>,
       damageTypes |-> {"floor", "wall", "fixture", "ceiling", "infrastructure"},
       ceilingLeakSeverity |-> "severe"],
      [id |-> "#3", x |-> 105, z |-> 620, width |-> 14, depth |-> 12,
       fixtures |-> <<"bed", "toilet">>,
       damageTypes |-> {"ceiling"},
       ceilingLeakSeverity |-> "moderate"],
      [id |-> "Hallway 1", x |-> 60, z |-> 630, width |-> 60, depth |-> 8,
       fixtures |-> << >>,
       damageTypes |-> {},
       ceilingLeakSeverity |-> "none"],
      [id |-> "#4", x |-> 105, z |-> 605, width |-> 0, depth |-> 12,
       fixtures |-> << >>,
       damageTypes |-> {"floor"},
       ceilingLeakSeverity |-> "none"],
      [id |-> "#5", x |-> NaN, z |-> 590, width |-> 14, depth |-> 12,
       fixtures |-> <<"toilet">>,
       damageTypes |-> {"wall"},
       ceilingLeakSeverity |-> "none"] }

\* room lists of at most MaxRooms different rooms
RoomLists ==
    UNION {{s \in [1..n -> SampleRooms] : \A i, j \in 1..n : s[i] = s[j] => i = j}
           : n \in 0..MaxRooms}

FixtureTypes == {"toilet", "sink", "cabinet"}

\* the instanced meshes each scene creates
Categories(r) ==
    CASE r = "Scene" -> {"walls", "floors", "ceilings", "floorDamage",
                         "wallDamage", "toilets", "sinks", "cabinets",
                         "fixtureDamage", "ducts", "pipes", "infraDamage"}
      [] r = "TwoLayer" -> {"walls", "floors", "toilets", "sinks", "cabinets"}
      [] OTHER -> {}

Leaks(room) == room.ceilingLeakSeverity # "none"

\* CountTokens counting a room once however many tokens it has
CountTokensOncePerRoom(fs, types) ==
    IF \E i \in 1..Len(fs) : fs[i] \in types THEN 1 ELSE 0

\* room.fixtures.forEach(f => { if (f === type) count++ })
RECURSIVE CountTokens(_, _)
CountTokens(fs, types) ==
    IF fs = << >> THEN 0
    ELSE (IF Head(fs) \in types THEN 1 ELSE 0) + CountTokens(Tail(fs), types)

\* the counting pass: toiletCount, sinkCount, cabinetCount
RECURSIVE FixtureCount(_, _)
FixtureCount(rs, type) ==
    IF rs = << >> THEN 0
    ELSE CountTokens(Head(rs).fixtures, {type}) + FixtureCount(Tail(rs), type)

\* floorDamageCount, wallDamageCount
DamageCount(rs, d) == Cardinality({i \in 1..Len(rs) : d \in rs[i].damageTypes})

\* ceilingDamageCount
LeakCount(rs) == Cardinality({i \in 1..Len(rs) : Leaks(rs[i])})

RECURSIVE FixtureDamageCount(_)
FixtureDamageCount(rs) ==
    IF rs = << >> THEN 0
    ELSE (IF "fixture" \in Head(rs).damageTypes
          THEN CountTokens(Head(rs).fixtures, FixtureTypes) ELSE 0)
         + FixtureDamageCount(Tail(rs))

\* the count each InstancedMesh is constructed with
Capacity(r, rs) ==
    LET all ==
        [walls |-> Len(rs) * 4,
         floors |-> Len(rs),
         ceilings |-> Len(rs),
         floorDamage |-> DamageCount(rs, "floor"),
         wallDamage |-> DamageCount(rs, "wall") * 4,
         toilets |-> Max(1, FixtureCount(rs, "toilet")),
         sinks |-> Max(1, FixtureCount(rs, "sink")),
         cabinets |-> Max(1, FixtureCount(rs, "cabinet")),
         fixtureDamage |-> Max(1, FixtureDamageCount(rs)),
         ducts |-> Max(1, LeakCount(rs)),
         pipes |-> Max(1, LeakCount(rs)),
         infraDamage |-> Max(1, LeakCount(rs))]
    IN  [c \in Categories(r) |-> all[c]]

\* createMatrix(x, _, z, sx, _, sz): the position and the extents of one
\* instance in the ground plane, with the room (position in the list) it
\* was derived from
Matrix(x, z, sx, sz, k) == [x |-> x, z |-> z, sx |-> sx, sz |-> sz, room |-> k]

\* cx, cz of the fill pass
CentreX(room) == Plus(T(room.x), Times(room.width, 50))
CentreZ(room) == Plus(T(room.z), Times(room.depth, 50))

\* fixtureX, fixtureZ for the fixture at index (from 0) of the room
FixtureX(room, index) ==
    Plus(T(room.x), wallThickness + FIXTURE_INSET + index * FIXTURE_SPACING)
FixtureZ(room) ==
    Minus(Plus(T(room.z), T(room.depth)), wallThickness + FIXTURE_INSET)

\* the x a fixture of the given type is drawn at: sinks are shifted by 3
PlacedX(room, index, type) ==
    IF type = "sink" THEN Plus(FixtureX(room, index), 300)
    ELSE FixtureX(room, index)

\* the fixtures of a room, one per token, in data order
FixtureRow(room, k) ==
    [i \in 1..Len(room.fixtures) |->
        [x |-> PlacedX(room, i - 1, room.fixtures[i]), z |-> FixtureZ(room),
         sx |-> 100, sz |-> 100, room |-> k, index |-> i - 1,
         type |-> room.fixtures[i]]]

\* the damage markers of the fixtures of a room
MarkerRow(room, k) ==
    [i \in 1..Len(room.fixtures) |->
        LET type == room.fixtures[i]
        IN  [x |-> PlacedX(room, i - 1, type), z |-> FixtureZ(room),
             sx |-> CASE type = "toilet" -> 160 [] type = "sink" -> 210
                      [] OTHER -> 310,
             sz |-> IF type = "toilet" THEN 210 ELSE 160,
             room |-> k, index |-> i - 1, type |-> type]]

\* what the fill pass writes for one room into the buffer of one category,
\* in the order of the setMatrixAt calls
RoomWrites(room, k, cat) ==
    LET x == T(room.x)
        z == T(room.z)
        w == T(room.width)
        d == T(room.depth)
        cx == CentreX(room)
        cz == CentreZ(room)
        inner == wallThickness \div 2 + 10
    IN  CASE cat = "floors" -> <<Matrix(cx, cz, w, d, k)>>
          [] cat = "ceilings" ->
                <<Matrix(cx, cz, Minus(w, 2 * wallThickness),
                         Minus(d, 2 * wallThickness), k)>>
          [] cat = "walls" ->
                <<Matrix(cx, z, w, wallThickness, k),
                  Matrix(cx, Plus(z, d), w, wallThickness, k),
                  Matrix(x, cz, wallThickness, d, k),
                  Matrix(Plus(x, w), cz, wallThickness, d, k)>>
          [] cat = "floorDamage" ->
                IF "floor" \in room.damageTypes
                THEN <<Matrix(cx, cz, w, d, k)>> ELSE << >>
          [] cat = "wallDamage" ->
                IF "wall" \in room.damageTypes
                THEN <<Matrix(cx, Plus(z, inner),
                              Minus(w, 2 * wallThickness), 10, k),
                       Matrix(cx, Minus(Plus(z, d), inner),
                              Minus(w, 2 * wallThickness), 10, k),
                       Matrix(Plus(x, inner), cz, 10,
                              Minus(d, 2 * wallThickness), k),
                       Matrix(Minus(Plus(x, w), inner), cz, 10,
                              Minus(d, 2 * wallThickness), k)>>
                ELSE << >>
          [] cat = "toilets" ->
                SelectSeq(FixtureRow(room, k), LAMBDA t : t.type = "toilet")
          [] cat = "sinks" ->
                SelectSeq(FixtureRow(room, k), LAMBDA t : t.type = "sink")
          [] cat = "cabinets" ->
                SelectSeq(FixtureRow(room, k), LAMBDA t : t.type = "cabinet")
          [] cat = "fixtureDamage" ->
                IF "fixture" \in room.damageTypes
                THEN SelectSeq(MarkerRow(room, k),
                               LAMBDA t : t.type \in FixtureTypes)
                ELSE << >>
          [] cat = "ducts" ->
                IF Leaks(room)
                THEN <<Matrix(cx, cz, Times(room.width, 60), 100, k)>>
                ELSE << >>
          [] cat = "pipes" ->
                IF Leaks(room)
                THEN <<Matrix(cx, Plus(z, Times(room.depth, 30)),
                              Times(room.width, 80), 100, k)>>
                ELSE << >>
          [] cat = "infraDamage" ->
                IF Leaks(room)
                THEN <<Matrix(cx, cz, Times(room.width, 30), 100, k)>>
                ELSE << >>

\* the fill pass over rooms k, k+1, ...: every setMatrixAt(idx++, ...) on the
\* buffer of one category, in index order
RECURSIVE Fill(_, _, _)
Fill(rs, k, cat) ==
    IF k > Len(rs) THEN << >>
    ELSE RoomWrites(rs[k], k, cat) \o Fill(rs, k + 1, cat)

Buffers(r, rs) == [c \in Categories(r) |-> Fill(rs, 1, c)]

----------------------------------------------------------------------------
(* buildHospital: the scattered damage (puddles, ceiling stains, drips).   *)
(* Random fractions are integers in 1e-4.                                  *)

MaxScatter == 2     \* puddles, stains, and drips per wall that are kept

TWO_PI == 2 * PI

\* cos of any angle >= 0, and sin through cos(x - pi/2)
CosAny(x) ==
    LET y == x % TWO_PI
    IN  IF y <= PI THEN Cos(y) ELSE Cos(TWO_PI - y)
Sin(x) == CosAny(x + TWO_PI - HALF_PI)

\* r * v for a fraction r
Frac(r, v) == IF IsNaN(r) \/ IsNaN(v) THEN NaN ELSE (r * v) \div 10000

\* seededRandom(seed): the fractional part of sin(seed * 12.9898 + 78.233)
\* * 43758.5453, at the precision of the model (the angle is reduced modulo
\* 2 pi piecewise so that no product leaves 32 bits)
SeededRandom(seed) ==
    IF IsNaN(seed) THEN NaN
    ELSE LET hi == seed \div 1000
             lo == seed % 1000
             angle == (hi * ((129898 * 1000) % TWO_PI) + lo * 129898 + 782330)
                      % TWO_PI
         IN  (Sin(angle) * 43758) % 10000

\* one scattered element
Spot(kind, x, z, sx, sz, opacity) ==
    [kind |-> kind, x |-> x, z |-> z, sx |-> sx, sz |-> sz, opacity |-> opacity]

\* the opacity of dripMaterial
DRIP_OPACITY == 5000

\* the opacity of a puddle or stain: dense 0.25..0.40, light 0.15..0.25
SpotOpacity(seed) ==
    IF SeededRandom(seed + 5) > 7000
    THEN 2500 + Frac(SeededRandom(seed + 6), 1500)
    ELSE 1500 + Frac(SeededRandom(seed + 6), 1000)

\* puddle p of the floor damage group (seed p * 137 + 42)
Puddle(p) ==
    LET seed == p * 137 + 42
        waterOverflow == 1000
        radius == 200 + Frac(SeededRandom(seed + 2), 600)
    IN  Spot("puddle",
             Frac(SeededRandom(seed), T(BUILDING.width) + 2 * waterOverflow)
                - waterOverflow,
             Frac(SeededRandom(seed + 1), T(BUILDING.length) + 2 * waterOverflow)
                - waterOverflow,
             Frac(7000 + Frac(SeededRandom(seed + 3), 6000), radius),
             Frac(7000 + Frac(SeededRandom(seed + 4), 6000), radius),
             SpotOpacity(seed))

\* ceiling stain s of the ceiling damage group (seed s * 173 + 89)
Stain(s) ==
    LET seed == s * 173 + 89
        radius == 100 + Frac(SeededRandom(seed + 2), 300)
    IN  Spot("stain",
             Frac(SeededRandom(seed), T(BUILDING.width)),
             Frac(SeededRandom(seed + 1), T(BUILDING.length)),
             Frac(7000 + Frac(SeededRandom(seed + 3), 6000), radius),
             Frac(7000 + Frac(SeededRandom(seed + 4), 6000), radius),
             SpotOpacity(seed))

\* totalPuddles, totalStains
totalPuddles == 80
totalStains == 50

\* the scattered overlay elements of the two loops: puddle p, stain s
Elements ==
    ({"puddle"} \X (0..(totalPuddles - 1))) \cup ({"stain"} \X (0..(totalStains - 1)))

\* the seeds an element passes to seededRandom: seed, seed + 1, ..., seed + 6
\* with puddleSeed = p * 137 + 42 and stainSeed = s * 173 + 89
SeedWindow(e) ==
    LET seed == IF e[1] = "puddle" THEN e[2] * 137 + 42 ELSE e[2] * 173 + 89
    IN  seed..(seed + 6)

\* createDripsAlongWall: drip i of the wall at (wallX, wallZ), in feet
Drip(wallX, wallZ, i, horizontal) ==
    LET dripSeed == Times(Plus(Plus(Times(wallX, 1000), Times(wallZ, 100)), i), 17)
        dripHeight == Plus(80, Frac(SeededRandom(dripSeed), 120))
        dripWidth == Plus(15, Frac(SeededRandom(Plus(dripSeed, 1)), 15))
        offset == Plus(i * 300 + 150, Frac(SeededRandom(Plus(dripSeed, 2)), 150))
    IN  [Spot("drip",
              IF horizontal THEN Plus(T(wallX), offset) ELSE T(wallX),
              IF horizontal THEN T(wallZ) ELSE Plus(T(wallZ), offset),
              IF horizontal THEN dripWidth ELSE 55,
              IF horizontal THEN 55 ELSE dripWidth,
              DRIP_OPACITY)
         EXCEPT !.kind = <<"drip", dripHeight>>]

\* Math.floor(wallLength / 3) drips, none when the length is not a number
DripsAlongWall(wallLength, wallX, wallZ, horizontal) ==
    IF IsNaN(wallLength) \/ wallLength < 3 THEN << >>
    ELSE [i \in 1..Min(MaxScatter, wallLength \div 3) |->
            Drip(wallX, wallZ, i - 1, horizontal)]

RECURSIVE RoomDrips(_)
RoomDrips(rs) ==
    IF rs = << >> THEN << >>
    ELSE LET room == Head(rs)
         IN  DripsAlongWall(room.width, room.x, Plus(room.z, room.depth), TRUE)
             \o DripsAlongWall(room.width, room.x, room.z, TRUE)
             \o DripsAlongWall(room.depth, room.x, room.z, FALSE)
             \o DripsAlongWall(room.depth, Plus(room.x, room.width), room.z, FALSE)
             \o RoomDrips(Tail(rs))

\* the scattered damage of the two-toggle scene
SeededScatter(rs) ==
    [p \in 1..MaxScatter |-> Puddle(p - 1)]
    \o [s \in 1..MaxScatter |-> Stain(s - 1)]
    \o RoomDrips(rs)
    \o DripsAlongWall(BUILDING.width, 0, BUILDING.length, TRUE)
    \o DripsAlongWall(BUILDING.width, 0, 0, TRUE)
    \o DripsAlongWall(BUILDING.length, BUILDING.width, 0, FALSE)
    \o DripsAlongWall(BUILDING.length, 0, 0, FALSE)

\* room.id.split('').reduce((acc, c) => acc + c.charCodeAt(0), 0)
IdHash(id) ==
    CASE id = "#1" -> 84 [] id = "#2" -> 85 [] id = "#3" -> 86
      [] id = "#4" -> 87 [] id = "#5" -> 88 [] id = "Hallway 1" -> 803

\* Scene.tsx, ceiling leak zones: the stains of one room, placed by the hash
\* of its id
LeakStains(room) ==
    IF ~Leaks(room) THEN << >>
    ELSE LET hash == IdHash(room.id)
             stainCount == IF room.ceilingLeakSeverity = "severe"
                           THEN 3 + (hash % 3) ELSE 1 + (hash % 2)
         IN  [n \in 1..stainCount |->
                LET seed == hash + (n - 1) * 137
                    stainSize == 100 + (seed % 20) * 10
                    xOffset == ((seed * 7) % 100) * 100
                    zOffset == ((seed * 13) % 100) * 100
                IN  Spot("stain",
                         Plus(Plus(T(room.x), wallThickness),
                              Frac(xOffset, Minus(T(room.width), 2 * wallThickness))),
                         Plus(Plus(T(room.z), wallThickness),
                              Frac(zOffset, Minus(T(room.depth), 2 * wallThickness))),
                         stainSize, stainSize,
                         IF room.ceilingLeakSeverity = "severe" THEN 7000 ELSE 6000)]

RECURSIVE HashedScatter(_)
HashedScatter(rs) ==
    IF rs = << >> THEN << >>
    ELSE LeakStains(Head(rs)) \o HashedScatter(Tail(rs))

\* Math.random(): call number k of a page load whose generator started in
\* state seed; the engine picks the state, the program cannot
Seeds == {1, 2}
MathRandom(seed, k) == (seed * 6151 + k * 2731) % 10000

\* the older scene, water stains: 2 + floor(random * 3) stains per room with
\* ceiling damage, each of random size and place; calls counts the
\* Math.random() calls made so far
RECURSIVE RandomScatter(_, _, _)
RandomScatter(rs, seed, calls) ==
    IF rs = << >> THEN << >>
    ELSE LET room == Head(rs)
             stainCount == 2 + (MathRandom(seed, calls + 1) * 3) \div 10000
             stains ==
                [n \in 1..stainCount |->
                    LET c == calls + 1 + 3 * (n - 1)
                        stainSize == 100 + Frac(MathRandom(seed, c + 1), 200)
                    IN  Spot("stain",
                             Plus(Plus(T(room.x), wallThickness),
                                  Frac(MathRandom(seed, c + 2),
                                       Minus(T(room.width), 2 * wallThickness))),
                             Plus(Plus(T(room.z), wallThickness),
                                  Frac(MathRandom(seed, c + 3),
                                       Minus(T(room.depth), 2 * wallThickness))),
                             stainSize, stainSize, 10000)]
         IN  IF "ceiling" \in room.damageTypes
             THEN stains \o RandomScatter(Tail(rs), seed, calls + 1 + 3 * stainCount)
             ELSE RandomScatter(Tail(rs), seed, calls)

\* the scattered damage elements a build creates
Scatter(r, rs, seed) ==
    CASE r = "Scene" -> HashedScatter(rs)
      [] r = "TwoLayer" -> SeededScatter(rs)
      [] r = "Legacy" -> RandomScatter(rs, seed, 0)
      [] OTHER -> << >>

\* nothing built yet
NotBuilt == [capacity |-> << >>, buffers |-> << >>, scatter |-> << >>]

\* buildHospital(layerGroups)
BuildHospital(r, rs, seed) ==
    [capacity |-> Capacity(r, rs),
     buffers |-> Buffers(r, rs),
     scatter |-> Scatter(r, rs, seed)]

----------------------------------------------------------------------------
(* Initial states: the component has rendered, its effects have not run.   *)
(* The hook has no mount of its own: it is ready, with no camera attached. *)

HasPick(r) == r \in {"Scene", "Legacy"}
ClampedTheta(r) == r \in {"Scene", "TwoLayer"}

\* the room of h nearest along the ray, NoRoom when the ray hits nothing
Nearest(h) ==
    IF h = {} THEN NoRoom
    ELSE (CHOOSE a \in h : \A b \in h : a[2] <= b[2])[1]

NoPick == [did |-> "none", nearest |-> NoRoom, count |-> 0]

\* the container's size at mount and the sizes a window resize gives it
\* the viewport width of the rotation script, and the width below which the
\* sidebar collapses itself
InitialWidth == 1920
NARROW_WIDTH == 1200

InitialSize == <<800, 600>>
Sizes == {<<800, 600>>, <<1024, 768>>}

\* no earlier page load
NoLoad == [loaded |-> FALSE, scatter |-> << >>]

\* the effect with the layers prop among its dependencies
InitEffectDepsWithLayers(r) == {"layers"}

\* the dependency array of the "Initialize scene" effect: empty, or the
\* setCameraView callback of the Legacy scene, which never changes
InitEffectDeps(r) == IF r = "Legacy" THEN {"setCameraView"} ELSE {}

\* how many times the effect, and with it buildHospital, runs again after
\* the named prop or state changed
Rebuilds(r, changed) == IF changed \in InitEffectDeps(r) THEN 1 ELSE 0

\* cancelAnimationFrame left out of the cleanup
CancelAnimationFrameForgotten(pending) == pending

\* cancelAnimationFrame(animationFrameRef.current): is a callback still
\* scheduled afterwards
CancelAnimationFrame(pending) == FALSE

\* a re-render after the named prop changed: React runs the effects whose
\* dependencies changed
Rerender(changed) ==
    /\ nBuilds' = nBuilds + Rebuilds(rev, changed)
    /\ UNCHANGED <<roomList, built, prevScatter>>

\* no render call yet
NoFrame == << >>

\* the render call placed ahead of buildHospital and of the camera update
SubmitBeforeBuild(builds, sph) == [builds |-> 0, camera |-> DEFAULT_CAMERA]

\* renderer.render(scene, camera) where animate() makes it: the scene holds
\* what the buildHospital calls so far added, the camera was just placed
\* from the spherical state
Submit(builds, sph) == [builds |-> builds, camera |-> sph]

\* the groups a renderer.render(scene, camera) draws: buildHospital adds
\* building-wide meshes to every group, so every visible group draws
Rendered(vis) == {g \in DOMAIN vis : vis[g]}

InitWith(r, rs) ==
    /\ rev = r
    /\ roomList = rs
    /\ built = NotBuilt
    /\ nBuilds = 0
    /\ rafPending = FALSE
    /\ resizeListener = FALSE
    /\ rendererSize = InitialSize
    /\ drawn = {}
    /\ frame = NoFrame
    /\ prevScatter = NoLoad
    /\ collapsed = FALSE
    /\ innerWidth = InitialWidth
    /\ sideEffectDue = TRUE
    /\ userExpanded = FALSE
    /\ probe = << >>
    /\ stage = IF r = "Hook" THEN "ready" ELSE "rendered"
    /\ spherical = IF ClampedTheta(r) THEN DEFAULT_CAMERA ELSE TOP_CAMERA
    /\ target = BuildingCentre
    /\ isDragging = FALSE
    /\ lastMouse = <<0, 0>>
    /\ cameraAttached = FALSE
    /\ currentView = "top"
    /\ selectedRoom = NoRoom
    /\ detailPanelOpen = FALSE
    /\ layers = CASE r = "Scene" -> FloodLayers
                  [] r = "TwoLayer" -> TwoLayers
                  [] OTHER -> << >>
    /\ visible = << >>
    /\ pointer = <<0, 0>>
    /\ over = TRUE
    /\ held = NoButton
    /\ clickPending = FALSE
    /\ downAt = <<0, 0>>
    /\ nPress = 0
    /\ lastEvent = "none"
    /\ lastPick = NoPick

InitRev(r) == InitWith(r, rooms)

----------------------------------------------------------------------------
(* Mount *)

\* the "Initialize scene" effect: camera, layer groups, buildHospital, the
\* first animate() call; the Legacy scene also sets its initial view
InitEffect ==
    /\ stage = "rendered"
    /\ stage' = "initialized"
    /\ cameraAttached' = TRUE
    /\ visible' = NewGroups(rev)
    /\ \E seed \in Seeds : built' = BuildHospital(rev, roomList, seed)
    /\ nBuilds' = nBuilds + 1
    /\ spherical' = IF rev = "Legacy" THEN LegacyPresets["top"] ELSE spherical
    /\ target' = IF rev = "Legacy" THEN BuildingCentre ELSE target
    /\ rafPending' = TRUE
    /\ drawn' = Rendered(visible')
    /\ frame' = Submit(nBuilds', spherical')
    /\ resizeListener' = TRUE
    /\ lastEvent' = "initEffect"
    /\ UNCHANGED <<sideVars, probe, rev, isDragging, lastMouse, currentView, appVars, layers,
                   ptrVars, lastPick, roomList, prevScatter, rendererSize>>

\* the effects after it, on mount: layer visibility (and, in the Legacy
\* scene, the camera view effect)
LayerEffect ==
    /\ stage = "initialized"
    /\ stage' = "ready"
    /\ visible' = ApplyLayers(rev, layers, visible)
    /\ spherical' = IF rev = "Legacy" THEN LegacyPresets[currentView] ELSE spherical
    /\ target' = IF rev = "Legacy" THEN BuildingCentre ELSE target
    /\ lastEvent' = "layerEffect"
    /\ UNCHANGED <<buildVars, loopVars, sideVars, probe, rev, isDragging, lastMouse, cameraAttached, currentView,
                   appVars, layers, ptrVars, lastPick>>

----------------------------------------------------------------------------
(* The render loop, resize and teardown *)

\* the scene is mounted and no click event is owed
Quiet == stage = "ready" /\ ~clickPending

\* the animation-frame callback: animate() schedules the next callback,
\* moves the camera and renders
Tick ==
    /\ rafPending /\ stage \in {"ready", "unmounted"} /\ ~clickPending
    /\ rafPending' = TRUE
    /\ drawn' = Rendered(visible)
    /\ frame' = Submit(nBuilds, spherical)
    /\ lastEvent' = "tick"
    /\ UNCHANGED <<buildVars, sideVars, probe, resizeListener, rendererSize, rev, stage, camVars,
                   isDragging, lastMouse, cameraAttached, currentView, appVars,
                   layerVars, ptrVars, lastPick>>

\* handleResize, on a window resize that leaves the container at size s
Resize(s) ==
    /\ resizeListener /\ stage \in {"ready", "unmounted"} /\ ~clickPending
    /\ s # rendererSize
    /\ rendererSize' = IF stage = "ready" THEN s ELSE rendererSize
    /\ lastEvent' = "resize"
    /\ UNCHANGED <<buildVars, sideVars, probe, rafPending, resizeListener, drawn, frame, rev,
                   stage, camVars, isDragging, lastMouse, cameraAttached,
                   currentView, appVars, layerVars, ptrVars, lastPick>>

\* the cleanup of the "Initialize scene" effect, when the scene unmounts
Unmount ==
    /\ Quiet /\ rev # "Hook"
    /\ stage' = "unmounted"
    /\ resizeListener' = FALSE
    /\ rafPending' = CancelAnimationFrame(rafPending)
    /\ lastEvent' = "unmount"
    /\ UNCHANGED <<buildVars, sideVars, probe, rendererSize, drawn, frame, rev, camVars,
                   isDragging, lastMouse, cameraAttached, currentView, appVars,
                   layerVars, ptrVars, lastPick>>

\* the page is loaded again: a new process with the state of a first render;
\* the model follows one reload and remembers the scatter of the first load
Reload ==
    /\ stage = "unmounted" /\ ~prevScatter.loaded
    /\ prevScatter' = [loaded |-> TRUE, scatter |-> built.scatter]
    /\ stage' = "rendered"
    /\ built' = NotBuilt
    /\ nBuilds' = 0
    /\ rafPending' = FALSE
    /\ resizeListener' = FALSE
    /\ rendererSize' = InitialSize
    /\ drawn' = {}
    /\ frame' = NoFrame
    /\ spherical' = IF ClampedTheta(rev) THEN DEFAULT_CAMERA ELSE TOP_CAMERA
    /\ target' = BuildingCentre
    /\ isDragging' = FALSE
    /\ lastMouse' = <<0, 0>>
    /\ cameraAttached' = FALSE
    /\ currentView' = "top"
    /\ selectedRoom' = NoRoom
    /\ detailPanelOpen' = FALSE
    /\ layers' = CASE rev = "Scene" -> FloodLayers
                   [] rev = "TwoLayer" -> TwoLayers
                   [] OTHER -> << >>
    /\ visible' = << >>
    /\ held' = NoButton
    /\ clickPending' = FALSE
    /\ nPress' = 0
    /\ lastPick' = NoPick
    /\ lastEvent' = "reload"
    /\ collapsed' = FALSE
    /\ sideEffectDue' = TRUE
    /\ userExpanded' = FALSE
    /\ UNCHANGED <<rev, roomList, pointer, over, downAt, innerWidth, probe>>

----------------------------------------------------------------------------
(* The sidebar: Sidebar.tsx, the collapsed state and its auto-collapse *)

\* window widths: well below, just below, at, and above the limit
Widths == {1000, 1199, 1200, 1920}

\* the effect with [collapsed] as dependency, after the mount and after every
\* change of collapsed: its "initial check" calls handleResize() and the
\* listener is registered
SidebarEffect ==
    /\ sideEffectDue
    /\ IF innerWidth < NARROW_WIDTH /\ ~collapsed
       THEN collapsed' = TRUE /\ userExpanded' = FALSE /\ sideEffectDue' = TRUE
       ELSE sideEffectDue' = FALSE /\ UNCHANGED <<collapsed, userExpanded>>
    /\ lastEvent' = "sidebarEffect"
    /\ UNCHANGED <<buildVars, loopVars, probe, innerWidth, rev, stage, camVars,
                   isDragging, lastMouse, cameraAttached, currentView, appVars,
                   layerVars, ptrVars, lastPick>>

\* the window is resized to width w: the Sidebar's handleResize
SidebarResize(w) ==
    /\ ~sideEffectDue /\ w # innerWidth
    /\ innerWidth' = w
    /\ IF w < NARROW_WIDTH /\ ~collapsed
       THEN collapsed' = TRUE /\ userExpanded' = FALSE /\ sideEffectDue' = TRUE
       ELSE UNCHANGED <<collapsed, userExpanded, sideEffectDue>>
    /\ lastEvent' = "sidebarResize"
    /\ UNCHANGED <<buildVars, loopVars, probe, rev, stage, camVars, isDragging,
                   lastMouse, cameraAttached, currentView, appVars, layerVars,
                   ptrVars, lastPick>>

\* the expand button of the collapsed sidebar: setCollapsed(false)
ExpandSidebar ==
    /\ ~sideEffectDue /\ collapsed
    /\ collapsed' = FALSE
    /\ userExpanded' = TRUE
    /\ sideEffectDue' = TRUE
    /\ lastEvent' = "expand"
    /\ UNCHANGED <<buildVars, loopVars, probe, innerWidth, rev, stage, camVars,
                   isDragging, lastMouse, cameraAttached, currentView, appVars,
                   layerVars, ptrVars, lastPick>>

\* the collapse button of the expanded sidebar: setCollapsed(true)
CollapseSidebar ==
    /\ ~sideEffectDue /\ ~collapsed
    /\ collapsed' = TRUE
    /\ userExpanded' = FALSE
    /\ sideEffectDue' = TRUE
    /\ lastEvent' = "collapse"
    /\ UNCHANGED <<buildVars, loopVars, probe, innerWidth, rev, stage, camVars,
                   isDragging, lastMouse, cameraAttached, currentView, appVars,
                   layerVars, ptrVars, lastPick>>

----------------------------------------------------------------------------
(* Pointer events *)

\* handleMouseDown; the hook's handler does not look at the button
MouseDown(b) ==
    /\ Quiet /\ over /\ held = NoButton /\ nPress < MaxPress
    /\ held' = b
    /\ nPress' = nPress + 1
    /\ downAt' = IF b = 0 THEN pointer ELSE downAt
    /\ IF b = 0 \/ rev = "Hook"
       THEN isDragging' = TRUE /\ lastMouse' = pointer
       ELSE UNCHANGED <<isDragging, lastMouse>>
    /\ lastEvent' = "mouseDown"
    /\ UNCHANGED <<buildVars, loopVars, sideVars, probe, rev, stage, camVars, cameraAttached, currentView, appVars,
                   layerVars, pointer, over, clickPending, lastPick>>

\* handleMouseUp; the browser follows a primary release over the container
\* with a click
MouseUp ==
    /\ Quiet /\ over /\ held # NoButton
    /\ isDragging' = FALSE
    /\ held' = NoButton
    /\ clickPending' = (held = 0 /\ HasPick(rev))
    /\ lastEvent' = "mouseUp"
    /\ UNCHANGED <<buildVars, loopVars, sideVars, probe, rev, stage, camVars, lastMouse, cameraAttached, currentView,
                   appVars, layerVars, pointer, over, downAt, nPress, lastPick>>

\* the button is released while the pointer is outside: no event reaches
\* the container
ReleaseOutside ==
    /\ Quiet /\ ~over /\ held # NoButton
    /\ held' = NoButton
    /\ lastEvent' = "releaseOutside"
    /\ UNCHANGED <<buildVars, loopVars, sideVars, probe, rev, stage, camVars, isDragging, lastMouse, cameraAttached,
                   currentView, appVars, layerVars, pointer, over, clickPending,
                   downAt, nPress, lastPick>>

\* onMouseLeave={handleMouseUp}
MouseLeave ==
    /\ Quiet /\ over /\ rev # "Hook"
    /\ over' = FALSE
    /\ isDragging' = FALSE
    /\ lastEvent' = "mouseLeave"
    /\ UNCHANGED <<buildVars, loopVars, sideVars, probe, rev, stage, camVars, lastMouse, cameraAttached, currentView,
                   appVars, layerVars, pointer, held, clickPending, downAt,
                   nPress, lastPick>>

\* the pointer comes back over the container at p: the moves outside reached
\* no handler, and handleMouseMove returns early since nothing is dragging
MouseEnter(p) ==
    /\ Quiet /\ ~over
    /\ over' = TRUE
    /\ pointer' = p
    /\ lastEvent' = "mouseEnter"
    /\ UNCHANGED <<buildVars, loopVars, sideVars, probe, rev, stage, camVars, isDragging, lastMouse, cameraAttached,
                   currentView, appVars, layerVars, held, clickPending, downAt,
                   nPress, lastPick>>

Drag(r, sph, deltaX, deltaY) ==
    CASE r = "Legacy" -> LegacyDrag(sph, deltaX, deltaY)
      [] r = "Hook" -> HookDrag(sph, deltaX, deltaY)
      [] OTHER -> SceneDrag(sph, deltaX, deltaY)

\* handleMouseMove
MouseMove(p) ==
    /\ Quiet /\ over /\ p # pointer
    /\ pointer' = p
    /\ IF isDragging
       THEN /\ spherical' = Drag(rev, spherical, Minus(p[1], lastMouse[1]),
                                 Minus(p[2], lastMouse[2]))
            /\ lastMouse' = p
       ELSE UNCHANGED <<spherical, lastMouse>>
    /\ lastEvent' = IF isDragging THEN "drag" ELSE "mouseMove"
    /\ UNCHANGED <<buildVars, loopVars, sideVars, probe, rev, stage, target, isDragging, cameraAttached, currentView,
                   appVars, layerVars, over, held, clickPending, downAt, nPress,
                   lastPick>>

\* a zoom that also tilts the camera down to the horizon limit
ZoomTilting(r, sph, deltaY) == [SceneZoom(sph, deltaY) EXCEPT !.phi = PHI_MAX]

\* handleWheel of the running revision
Zoom(r, sph, deltaY) ==
    CASE r = "Legacy" -> LegacyZoom(sph, deltaY)
      [] r = "Hook" -> HookZoom(sph, deltaY)
      [] OTHER -> SceneZoom(sph, deltaY)

\* handleWheel
Wheel(deltaY) ==
    /\ Quiet /\ over
    /\ spherical' = Zoom(rev, spherical, deltaY)
    /\ lastEvent' = "wheel"
    /\ UNCHANGED <<buildVars, loopVars, sideVars, probe, rev, stage, target, isDragging, lastMouse, cameraAttached,
                   currentView, appVars, layerVars, ptrVars, lastPick>>

\* handleClick, with the ray-cast hits h
Click(h) ==
    /\ stage = "ready" /\ clickPending /\ HasPick(rev)
    /\ clickPending' = FALSE
    /\ lastEvent' = "click"
    /\ IF ~cameraAttached \/ WasDrag(pointer, lastMouse)
       THEN /\ lastPick' = [did |-> "skipped", nearest |-> NoRoom, count |-> 0]
            /\ UNCHANGED <<camVars, appVars>>
       ELSE LET intersects == IntersectObjects(Meshes(visible, h))
                picked == PickResult(intersects, selectedRoom)
                focus == PickFocus(intersects, selectedRoom)
                app == RoomSelected(picked, detailPanelOpen)
            IN  /\ lastPick' = [did |-> "picked", nearest |-> Nearest(h),
                                 count |-> Cardinality(h)]
                /\ selectedRoom' = app.selectedRoom
                /\ detailPanelOpen' = app.detailPanelOpen
                /\ target' = IF focus # NoRoom THEN RoomCentre(RoomById(focus))
                             ELSE target
                /\ spherical' = IF focus # NoRoom /\ rev = "Legacy"
                                THEN [spherical EXCEPT !.radius = FOCUS_RADIUS]
                                ELSE spherical
    /\ Rerender("selectedRoom")
    /\ UNCHANGED <<loopVars, sideVars, probe, rev, stage, isDragging, lastMouse, cameraAttached,
                   currentView, layerVars, pointer, over, held, downAt, nPress>>

----------------------------------------------------------------------------
(* Views, focus, selection owner *)

\* Legacy scene: currentView changes and the camera view effect runs
\* setCameraView(currentView)
SetCameraView(view) ==
    /\ Quiet /\ rev = "Legacy" /\ view # currentView
    /\ currentView' = view
    /\ spherical' = LegacyPresets[view]
    /\ target' = BuildingCentre
    /\ lastEvent' = "setView"
    /\ UNCHANGED <<buildVars, loopVars, sideVars, probe, rev, stage, isDragging, lastMouse, cameraAttached, appVars,
                   layerVars, ptrVars, lastPick>>

\* useCamera.ts setView
SetView(view) ==
    /\ Quiet /\ rev = "Hook"
    /\ currentView' = view
    /\ IF cameraAttached
       THEN /\ spherical' = HookPresets[view]
            /\ target' = BuildingCentre
       ELSE UNCHANGED camVars
    /\ lastEvent' = "setView"
    /\ UNCHANGED <<buildVars, loopVars, sideVars, probe, rev, stage, isDragging, lastMouse, cameraAttached, appVars,
                   layerVars, ptrVars, lastPick>>

\* the hook's consumer stores its camera in the cameraRef the hook returns
AttachCamera ==
    /\ Quiet /\ rev = "Hook" /\ ~cameraAttached
    /\ cameraAttached' = TRUE
    /\ lastEvent' = "attachCamera"
    /\ UNCHANGED <<buildVars, loopVars, sideVars, probe, rev, stage, camVars, isDragging, lastMouse, currentView,
                   appVars, layerVars, ptrVars, lastPick>>

\* useCamera.ts focusOnRoom(x, z), called with a room's centre
FocusOnRoom(id) ==
    /\ Quiet /\ rev = "Hook"
    /\ target' = RoomCentre(RoomById(id))
    /\ spherical' = [spherical EXCEPT !.radius = FOCUS_RADIUS]
    /\ lastEvent' = "focusOnRoom"
    /\ UNCHANGED <<buildVars, loopVars, sideVars, probe, rev, stage, isDragging, lastMouse, cameraAttached,
                   currentView, appVars, layerVars, ptrVars, lastPick>>

\* App.tsx handleClearSelection
ClearSelection ==
    /\ Quiet /\ rev = "Scene" /\ selectedRoom # NoRoom
    /\ selectedRoom' = NoRoom
    /\ detailPanelOpen' = FALSE
    /\ lastEvent' = "clearSelection"
    /\ Rerender("selectedRoom")
    /\ UNCHANGED <<loopVars, sideVars, probe, rev, stage, camVars, isDragging, lastMouse, cameraAttached,
                   currentView, layerVars, ptrVars, lastPick>>

\* App.tsx handleDetailPanelClose
DetailPanelClose ==
    /\ Quiet /\ rev = "Scene" /\ detailPanelOpen
    /\ detailPanelOpen' = FALSE
    /\ lastEvent' = "detailPanelClose"
    /\ UNCHANGED <<buildVars, loopVars, sideVars, probe, rev, stage, camVars, isDragging, lastMouse, cameraAttached,
                   currentView, selectedRoom, layerVars, ptrVars, lastPick>>

----------------------------------------------------------------------------
(* Layer toggles: the state update, the re-render and the visibility effect *)

ToggleLayer(key) ==
    /\ Quiet /\ key \in DOMAIN layers
    /\ layers' = Toggled(layers, key)
    /\ visible' = ApplyLayers(rev, layers', visible)
    /\ lastEvent' = key
    /\ Rerender("layers")
    /\ UNCHANGED <<loopVars, sideVars, probe, rev, stage, camVars, isDragging, lastMouse, cameraAttached,
                   currentView, appVars, ptrVars, lastPick>>

\* useLayers.ts toggleFlood, toggleFloorDamage, toggleWallDamage,
\* toggleCeilingDamage
ToggleFlood == ToggleLayer("flood")
ToggleFloorDamage == ToggleLayer("floorDamage")
ToggleWallDamage == ToggleLayer("wallDamage")
ToggleCeilingDamage == ToggleLayer("ceilingDamage")

----------------------------------------------------------------------------
(* Specifications *)

Mount == InitEffect \/ LayerEffect

ButtonNext ==
    \/ \E b \in Buttons : MouseDown(b)
    \/ MouseUp
    \/ \E h \in HitSets : Click(h)

LeaveNext ==
    \/ ReleaseOutside
    \/ MouseLeave

ViewNext ==
    \/ \E v \in Views : SetCameraView(v)
    \/ \E v \in Views : SetView(v)
    \/ AttachCamera
    \/ \E id \in RoomIds : FocusOnRoom(id)

AppNext == ClearSelection \/ DetailPanelClose

ToggleNext ==
    ToggleFlood \/ ToggleFloorDamage \/ ToggleWallDamage \/ ToggleCeilingDamage

\* the orbit camera of every revision: drags, zooms, focus and view presets
InitOrbit == \E r \in Revisions : InitRev(r)
NextOrbit ==
    \/ Mount
    \/ ButtonNext
    \/ \E p \in OrbitPoints : MouseMove(p)
    \/ \E d \in WheelDeltas : Wheel(d)
    \/ ViewNext
SpecOrbit == InitOrbit /\ [][NextOrbit]_vars

\* picking and selection in the scenes that pick
InitPick == \E r \in {"Scene", "Legacy"} : InitRev(r)
NextPick ==
    \/ Mount
    \/ ButtonNext
    \/ LeaveNext
    \/ \E p \in PickPoints : MouseEnter(p)
    \/ \E p \in PickPoints : MouseMove(p)
    \/ AppNext
SpecPick == InitPick /\ [][NextPick]_vars

\* layer visibility in the scenes with damage toggles, next to selections
\* and camera operations
InitLayers == \E r \in {"Scene", "TwoLayer"} : InitRev(r)
NextLayers ==
    \/ Mount
    \/ ToggleNext
    \/ ButtonNext
    \/ \E d \in WheelDeltas : Wheel(d)
    \/ AppNext
SpecLayers == InitLayers /\ [][NextLayers]_vars

\* the life of a mounted scene: the render loop, resizes and teardown next
\* to toggles, selections and camera operations
RenderDeltas == {2000}
RenderHits == {{}, {<<rooms[1].id, 1>>}}
InitRender == \E r \in {"Scene", "TwoLayer", "Legacy"} : InitRev(r)
NextRender ==
    \/ Mount
    \/ Tick
    \/ \E s \in Sizes : Resize(s)
    \/ Unmount
    \/ ToggleNext
    \/ MouseDown(0)
    \/ MouseUp
    \/ \E h \in RenderHits : Click(h)
    \/ \E d \in RenderDeltas : Wheel(d)
    \/ AppNext
SpecRender == InitRender /\ [][NextRender]_vars

\* buildHospital over room arrays, and a second load of the page
InitBuild ==
    \E r \in {"Scene", "TwoLayer", "Legacy"}, rs \in RoomLists : InitWith(r, rs)
NextBuild ==
    \/ Mount
    \/ Tick
    \/ Unmount
    \/ Reload
SpecBuild == InitBuild /\ [][NextBuild]_vars

\* the pointer handlers given events whose coordinates or deltas are NaN
NaNPoints == {<<0, 0>>, <<NaN, 400>>, <<500, NaN>>}
NaNDeltas == {-1000, NaN}
InitNaN == \E r \in Revisions : InitRev(r)
NextNaN ==
    \/ Mount
    \/ ButtonNext
    \/ \E p \in NaNPoints : MouseMove(p)
    \/ \E d \in NaNDeltas : Wheel(d)
SpecNaN == InitNaN /\ [][NextNaN]_vars

\* selecting and focusing on rooms, between drags and zooms of the camera
InitFocus == \E r \in {"Scene", "Legacy", "Hook"} : InitRev(r)
NextFocus ==
    \/ Mount
    \/ MouseDown(0)
    \/ MouseUp
    \/ \E h \in HitSets : Click(h)
    \/ \E p \in OrbitPoints : MouseMove(p)
    \/ \E d \in RenderDeltas : Wheel(d)
    \/ \E id \in RoomIds : FocusOnRoom(id)
SpecFocus == InitFocus /\ [][NextFocus]_vars

\* the rotation script: the pointer is put at (960, 540), the primary button
\* is pressed, the pointer is dragged 300 px to the left and released, again
\* and again
RotatePoints == {<<960, 540>>, <<660, 540>>}
InitRotate == \E r \in Revisions : InitRev(r)
NextRotate ==
    \/ Mount
    \/ MouseDown(0)
    \/ MouseUp
    \/ \E h \in RenderHits : Click(h)
    \/ \E p \in RotatePoints : MouseMove(p)
SpecRotate == InitRotate /\ [][NextRotate]_vars

\* the App with its sidebar: the sidebar's collapse state next to the scene
\* and the layer toggles
NextSidebar ==
    \/ Mount
    \/ ToggleNext
    \/ SidebarEffect
    \/ \E w \in Widths : SidebarResize(w)
    \/ ExpandSidebar
    \/ CollapseSidebar
SpecSidebar == InitLayers /\ [][NextSidebar]_vars

\* the seeds of the scattered overlay: two elements of the puddle and stain
\* loops are taken and the seeds they use are noted
DrawSeeds(a, b) ==
    /\ probe = << >> /\ a # b
    /\ probe' = [a |-> a, b |-> b, seedsA |-> SeedWindow(a),
                 seedsB |-> SeedWindow(b)]
    /\ UNCHANGED <<buildVars, loopVars, sideVars, rev, stage, camVars,
                   isDragging, lastMouse, cameraAttached, currentView, appVars,
                   layerVars, ptrVars, lastEvent, lastPick>>
NextSeeds == \E a \in Elements, b \in Elements : DrawSeeds(a, b)
SpecSeeds == InitLayers /\ [][NextSeeds]_vars

----------------------------------------------------------------------------
(* Properties *)

MinRadius(r) == IF ClampedTheta(r) THEN SCENE_MIN_RADIUS ELSE LEGACY_MIN_RADIUS

\* C1: after every update of the drag handler, whatever the deltas, the
\* polar angle is within [PHI_MIN, PHI_MAX]
C1_PhiClampedAfterDrag ==
    lastEvent = "drag" => (PHI_MIN <= spherical.phi /\ spherical.phi <= PHI_MAX)

\* a drag pushed the polar angle onto its upper limit
C1_Witness == lastEvent = "drag" /\ spherical.phi = PHI_MAX

\* C2: in every reachable camera state the polar angle keeps the margin
\* PHI_MIN from both poles (0 and pi)
C2_PolarOffPole ==
    PHI_MIN <= spherical.phi /\ spherical.phi <= PI - PHI_MIN

C4_RadiusClampedAfterWheel ==
    lastEvent = "wheel" =>
        (MinRadius(rev) <= spherical.radius /\ spherical.radius <= MAX_RADIUS)

\* a wheel event with a zero or negative factor left the radius at the minimum
C4_Witness ==
    lastEvent = "wheel" /\ rev = "Scene" /\ spherical.radius = SCENE_MIN_RADIUS

\* C5: a click farther than the threshold from the position of the press
\* performs no pick
C5_NoPickAfterDrag ==
    LET dx == pointer[1] - downAt[1]
        dy == pointer[2] - downAt[2]
    IN  (lastEvent = "click"
            /\ dx * dx + dy * dy > moveThreshold * moveThreshold)
        => lastPick.did = "skipped"

\* C6: a click nearer than the threshold to the position of the press
\* performs a pick
C6_PickAfterClick ==
    LET dx == pointer[1] - downAt[1]
        dy == pointer[2] - downAt[2]
    IN  (lastEvent = "click"
            /\ dx * dx + dy * dy < moveThreshold * moveThreshold)
        => lastPick.did = "picked"

\* C7: a pick that hits the selected room clears the selection, a pick that
\* hits another room selects exactly that room
C7_ToggleSelection ==
    [][(lastEvent' = "click" /\ lastPick'.did = "picked"
            /\ lastPick'.nearest # NoRoom)
        => selectedRoom' = (IF lastPick'.nearest = selectedRoom THEN NoRoom
                            ELSE lastPick'.nearest)]_vars

\* a pick hit the selected room and cleared the selection
C7_Witness ==
    /\ lastEvent = "click" /\ lastPick.did = "picked"
    /\ lastPick.nearest # NoRoom /\ selectedRoom = NoRoom

\* C8: a pick that hits nothing leaves no selection; a pick that hits several
\* rooms resolves to the nearest one (selecting it, or clearing it if it was
\* the selection)
C8_NearestOrNone ==
    (lastEvent = "click" /\ lastPick.did = "picked") =>
        /\ lastPick.count = 0 => selectedRoom = NoRoom
        /\ lastPick.count > 0 => selectedRoom \in {lastPick.nearest, NoRoom}

\* a pick hit several rooms and selected the nearest
C8_Witness ==
    /\ lastEvent = "click" /\ lastPick.did = "picked"
    /\ lastPick.count > 1 /\ selectedRoom = lastPick.nearest

C10_BuildingVisible ==
    /\ "building" \notin DOMAIN layers
    /\ "building" \in DOMAIN visible => visible["building"]

\* every damage group is toggled off, a room is selected, the building shows
C10_Witness ==
    /\ stage = "ready" /\ selectedRoom # NoRoom
    /\ \A g \in DOMAIN visible : visible[g] <=> g = "building"

\* C11: while every damage toggle is off, no frame the renderer is given,
\* the first frame of the initialization included, draws a damage group
C11_NoDamageFrameWhileOff ==
    (/\ lastEvent \in {"initEffect", "tick"}
     /\ DOMAIN layers # {}
     /\ \A k \in DOMAIN layers : ~layers[k])
    => drawn \subseteq {"building"}

\* C12: buildHospital runs exactly once per mount: once the scene is
\* initialized the number of builds is 1 and stays 1 through toggles,
\* selections, camera operations and resizes, and a step that changes the
\* toggles changes, besides them, only the visibility flags of the groups
C12_BuiltOncePerMount ==
    [][/\ (stage' # "rendered" => nBuilds' = 1)
       /\ (stage # "rendered" => built' = built)
       /\ (layers' # layers =>
              /\ DOMAIN visible' = DOMAIN visible
              /\ UNCHANGED <<camVars, appVars, loopVars, roomList, stage>>)]_vars

\* a mounted scene after a toggle, a selection, a zoom and a resize, still
\* built once
C12_Witness ==
    /\ rev = "Scene" /\ nBuilds = 1 /\ stage = "ready"
    /\ ~layers.floorDamage
    /\ selectedRoom # NoRoom
    /\ spherical.radius = MAX_RADIUS
    /\ rendererSize # InitialSize

\* C13: while the scene is mounted an animation-frame callback is always
\* scheduled (every tick schedules the next one) and the resize listener is
\* registered; after the teardown no callback is scheduled, the listener is
\* removed, and no frame or resize handler runs any more
C13_LoopStopsAtTeardown ==
    /\ stage = "ready" => (rafPending /\ resizeListener)
    /\ stage = "unmounted" =>
           (~rafPending /\ ~resizeListener /\ lastEvent = "unmount")

\* the two-toggle scene torn down after ticks and a resize
C13_Witness ==
    /\ rev = "TwoLayer" /\ stage = "unmounted"
    /\ drawn = {"building"}
    /\ rendererSize # InitialSize

\* C14: after a build the walls buffer holds four transforms per room, the
\* floors buffer one per room, each fixture buffer one per token of its type
\* in the room data, and no buffer holds more transforms than the capacity
\* it was allocated with (no write at an index >= capacity)
C14_PopulatedCounts ==
    (built # NotBuilt /\ rev \in {"Scene", "TwoLayer"}) =>
        /\ Len(built.buffers.walls) = 4 * Len(roomList)
        /\ Len(built.buffers.floors) = Len(roomList)
        /\ \A f \in {<<"toilets", "toilet">>, <<"sinks", "sink">>,
                     <<"cabinets", "cabinet">>} :
              Len(built.buffers[f[1]]) =
                  Cardinality({ki \in (1..Len(roomList)) \X (1..3) :
                                  /\ ki[2] <= Len(roomList[ki[1]].fixtures)
                                  /\ roomList[ki[1]].fixtures[ki[2]] = f[2]})
        /\ \A c \in DOMAIN built.buffers :
              Len(built.buffers[c]) <= built.capacity[c]

\* a build of two rooms, one of them with two sinks
C14_Witness ==
    /\ rev = "Scene" /\ stage = "ready" /\ Len(roomList) = 2
    /\ Len(built.buffers.sinks) = 3
    /\ Len(built.buffers.walls) = 8

\* C15: every buffer the build leaves empty (its computed count is zero) was
\* allocated with capacity 1
C15_EmptyBufferCapacityOne ==
    (built # NotBuilt /\ rev \in {"Scene", "TwoLayer"}) =>
        \A c \in DOMAIN built.buffers :
            Len(built.buffers[c]) = 0 => built.capacity[c] = 1

\* C16: the fixture at index i of a room is placed at
\* room.x + (wallThickness + 2) + i * 3 along x, whatever its type
C16_FixtureAtIndexSlot ==
    (built # NotBuilt /\ rev \in {"Scene", "TwoLayer"}) =>
        \A c \in {"toilets", "sinks", "cabinets"} :
            \A j \in 1..Len(built.buffers[c]) :
                LET t == built.buffers[c][j]
                IN  t.x = Plus(T(roomList[t.room].x),
                               wallThickness + FIXTURE_INSET
                                   + t.index * FIXTURE_SPACING)

\* C17: the scattered damage elements (puddles, ceiling stains, drips) of a
\* build are the same, tuple for tuple, as those of the build of the
\* previous page load over the same rooms
C17_SameScatterEveryLoad ==
    (prevScatter.loaded /\ nBuilds = 1) => built.scatter = prevScatter.scatter

\* C18: a click that selects a room, and focusOnRoom, move the look-at
\* target to the centre of that room, may set the radius to the focus
\* radius, and leave the polar and azimuth angles as they were; a click that
\* deselects, misses every room or is skipped as a drag changes no camera
\* state
C18_SelectionMovesTargetOnly ==
    [][LET click == clickPending /\ ~clickPending' /\ lastEvent' = "click"
           focus == rev = "Hook" /\ lastEvent' = "focusOnRoom"
                    /\ UNCHANGED <<appVars, ptrVars, isDragging, currentView>>
           selects == click /\ selectedRoom' # NoRoom
                      /\ selectedRoom' # selectedRoom
       IN  /\ (selects \/ focus) =>
                  /\ spherical'.phi = spherical.phi
                  /\ spherical'.theta = spherical.theta
                  /\ spherical'.radius \in {spherical.radius, FOCUS_RADIUS}
                  /\ \E id \in RoomIds :
                        /\ selects => id = selectedRoom'
                        /\ target' = <<2 * RoomById(id).x + RoomById(id).width,
                                       2 * RoomById(id).z + RoomById(id).depth>>
           /\ (click /\ ~selects) => UNCHANGED camVars]_vars

\* a click selected a room after the view had been turned and zoomed: the
\* camera looks at the room's centre with the angles of before
C18_Witness ==
    /\ lastEvent = "click" /\ lastPick.did = "picked"
    /\ selectedRoom # NoRoom
    /\ target = RoomCentre(RoomById(selectedRoom))
    /\ spherical.theta # DEFAULT_CAMERA.theta
    /\ spherical.theta # TOP_CAMERA.theta

\* C19: whatever deltas the drag and wheel handlers are given, a NaN delta
\* included, the spherical camera state never holds NaN
C19_NoNaNInSpherical ==
    /\ ~IsNaN(spherical.phi)
    /\ ~IsNaN(spherical.theta)
    /\ ~IsNaN(spherical.radius)

\* C20: a room record with a non-finite coordinate or a non-positive width
\* or depth is skipped or clamped by the builder: every transform written
\* to a buffer has a finite position and positive extents
C20_DegenerateRoomsGuarded ==
    (built # NotBuilt /\ rev \in {"Scene", "TwoLayer"}) =>
        \A c \in DOMAIN built.buffers :
            \A j \in 1..Len(built.buffers[c]) :
                LET t == built.buffers[c][j]
                IN  /\ ~IsNaN(t.x) /\ ~IsNaN(t.z)
                    /\ ~IsNaN(t.sx) /\ t.sx > 0
                    /\ ~IsNaN(t.sz) /\ t.sz > 0

\* C21: a pointer move while the primary button is not held (another button
\* is held, or none) never changes the polar or the azimuth angle
C21_OnlyPrimaryPressDrags ==
    [][(held # 0 /\ pointer' # pointer /\ lastEvent' \in {"drag", "mouseMove"})
       => (spherical'.phi = spherical.phi /\ spherical'.theta = spherical.theta)]_vars

\* C22: every 300-pixel drag to the left turns the azimuth by the same
\* angle, 300 times the rotation rate, however far it has turned already
C22_EqualAnglePerDrag ==
    [][(/\ isDragging /\ lastEvent' = "drag"
        /\ lastMouse = <<960, 540>> /\ pointer' = <<660, 540>>)
       => \E rate \in {SCENE_ROTATE, HOOK_ROTATE} :
             spherical'.theta = spherical.theta + 300 * rate]_vars

\* C23: in the scene with the main "flood" toggle, a damage group is visible
\* only if both flood and its own toggle are on; with flood off every
\* damage group is hidden
C23_FloodGatesDamage ==
    (rev = "Scene" /\ stage = "ready") =>
        \A g \in DOMAIN visible \ {"building"} :
            visible[g] => (layers.flood /\ layers[g])

\* C24: every frame is rendered after buildHospital has returned and with
\* the camera placed from the spherical state of that moment; the first
\* frame is rendered with all layer groups of the scene created
C24_RenderAfterBuild ==
    lastEvent \in {"initEffect", "tick"} =>
        /\ frame.builds = 1
        /\ frame.camera = spherical
        /\ DOMAIN visible = Groups(rev)

\* a tick rendered the older scene after a zoom moved the camera
C24_Witness ==
    /\ lastEvent = "tick" /\ rev = "Legacy"
    /\ frame.camera.radius = MAX_RADIUS

\* C25: a wheel event, with or without a drag in progress, sets the radius
\* to the clamped product of the radius and the wheel factor and changes
\* nothing else: polar angle, azimuth, target, drag flag, last pointer
\* position and selection stay as they were
C25_WheelChangesRadiusOnly ==
    [][lastEvent' = "wheel" =>
          /\ \E d \in WheelDeltas \cup RenderDeltas :
                spherical'.radius =
                    Max(MinRadius(rev),
                        Min(MAX_RADIUS, Scaled(spherical.radius, d)))
          /\ spherical'.phi = spherical.phi
          /\ spherical'.theta = spherical.theta
          /\ UNCHANGED <<target, isDragging, lastMouse, selectedRoom>>]_vars

\* a wheel event zoomed out to the limit in the middle of a drag that had
\* turned the camera
C25_Witness ==
    /\ lastEvent = "wheel" /\ isDragging
    /\ spherical.radius = MAX_RADIUS
    /\ spherical.theta \notin {DEFAULT_CAMERA.theta, TOP_CAMERA.theta}

\* C26: whenever a room is selected the look-at target is the centre of that
\* room's footprint
C26_TargetOnSelectedRoom ==
    selectedRoom # NoRoom =>
        target = <<2 * RoomById(selectedRoom).x + RoomById(selectedRoom).width,
                   2 * RoomById(selectedRoom).z + RoomById(selectedRoom).depth>>

\* C27: what a click selects is decided by the rooms under the pointer and
\* the current selection alone, the same for every state of the layer
\* toggles: the nearest room under the pointer, or nothing when that room
\* is the selected one or no room is hit
C27_PickIgnoresLayers ==
    [][(clickPending /\ ~clickPending' /\ lastPick'.did = "picked") =>
          selectedRoom' =
              IF lastPick'.nearest \in {NoRoom, selectedRoom} THEN NoRoom
              ELSE lastPick'.nearest]_vars

\* a click selected a room while the floor damage group was hidden and the
\* ceiling damage group shown
C27_Witness ==
    /\ lastEvent = "click" /\ lastPick.did = "picked"
    /\ selectedRoom # NoRoom /\ selectedRoom = lastPick.nearest
    /\ ~visible["floorDamage"] /\ visible["ceilingDamage"]

C29_ExpandedUntilCollapseOrResize ==
    [][(userExpanded /\ ~collapsed /\ collapsed')
       => lastEvent' \in {"collapse", "sidebarResize"}]_vars

\* C30: the seed windows [seed, seed + 6] of any two different scattered
\* elements (puddles 0..79, stains 0..49) are disjoint
C30_SeedWindowsDisjoint ==
    probe # << >> => probe.seedsA \cap probe.seedsB = {}

====
